---- MODULE Spec2Model ----
(***************************************************************************)
(* State-machine model of retryables.Retryer (src/retryer.go): the         *)
(* configuration setters and the Retry control loop with its exponential   *)
(* backoff, jitter draw and cancellation race.                             *)
(*                                                                         *)
(* time.Duration is a signed 64-bit count of nanoseconds; the model keeps  *)
(* the two's-complement arithmetic but scales the width to DurBits bits    *)
(* and the unit to one second, so that overflow of baseDelay * 2^attempt   *)
(* is reachable within a small attempt budget.                             *)
(***************************************************************************)
EXTENDS Integers, Sequences, FiniteSets, TLC

\* ---- bounds of the model ------------------------------------------------
DurBits == 5
MaxCount == 6
MaxBaseDelay == 2
MaxMaxDelay == 3
\* Calls of Retry on one instance, and the largest budget and delay set, where
\* calls repeat.
MaxCalls == 2
ReuseMaxCount == 2
ReuseMaxDelay == 1

\* ---- program constants (NewRetryer) -------------------------------------
DefaultCount == 3
DefaultBaseDelay == 1
DefaultMaxDelay == 8

\* ---- values -------------------------------------------------------------
Nil == "nil"
Errs == {"ErrA", "ErrB"}
CtxErrs == {"Canceled", "DeadlineExceeded"}
Outcomes == {Nil} \cup Errs

\* The retry predicates a caller may install: the default (err != nil), one
\* matching a single error (errors.Is(err, ErrA)), one rejecting every error
\* and one answering true whatever it is given.
CondFuncs == {"any", "onlyA", "never", "always"}

RECURSIVE Pow2(_)
Pow2(n) == IF n <= 0 THEN 1 ELSE 2 * Pow2(n - 1)

MaxDur == Pow2(DurBits - 1) - 1
MinDur == 0 - Pow2(DurBits - 1)

\* Two's-complement wrap of an integer to the duration width.
Wrap(x) ==
  LET m == Pow2(DurBits)
      r == x % m
  IN IF r > MaxDur THEN r - m ELSE r

Min(a, b) == IF a < b THEN a ELSE b

VARIABLES
  retryCount, baseDelay, maxDelay, retryConditionFunc, logger,
  pc, ctxErr, attempt, err, result, backoff, jitter, timerReady,
  invocations, outcomes, waits, logStart, condCalls, sumJitter,
  cancelPc, cancelInv, calls

\* retryCount .. logger are the fields of Retryer; pc .. timerReady are the
\* locals and control position of one Retry call; the rest is history kept
\* for stating properties: the number of retryFunc calls, their results in
\* order, the waits begun, the length of the sink when the call started, the
\* number of predicate calls, the sum of the drawn waits, and where the call
\* stood (and how many invocations it had made) when cancellation fired, and
\* the number of Retry calls made on the instance.
config == <<retryCount, baseDelay, maxDelay, retryConditionFunc>>
ghost == <<invocations, outcomes, waits, logStart, condCalls, sumJitter,
           cancelPc, cancelInv, calls>>
vars == <<retryCount, baseDelay, maxDelay, retryConditionFunc, logger,
          pc, ctxErr, attempt, err, result, backoff, jitter, timerReady,
          invocations, outcomes, waits, logStart, condCalls, sumJitter,
          cancelPc, cancelInv, calls>>

\* r.retryConditionFunc(err)
Cond(f, e) ==
  CASE f = "any" -> e # Nil
    [] f = "onlyA" -> e = "ErrA"
    [] f = "always" -> TRUE
    [] OTHER -> FALSE

\* Mutant: the line carries the 0-based attempt index.
LogLineZeroBased(a, n, e) == [attempt |-> a, count |-> n, err |-> e]

\* fmt.Fprintf(r.logger, "Attempt %d/%d failed: %v\n", attempt+1, r.retryCount, err)
LogLine(a, n, e) == [attempt |-> a + 1, count |-> n, err |-> e]

\* for attempt := 0; attempt < r.retryCount; attempt++
LoopCond(a, n) == a < n

\* Mutant: the cancellation check is missing.
CtxDoneNever(c) == FALSE

\* if ctx.Err() != nil
CtxDone(c) == c # Nil

\* Mutant: the early return on err == nil is missing, so a nil result goes to
\* the predicate like any other.
DecideNoNilCheck(o, a, n, f) ==
  IF ~Cond(f, o) THEN IF o = Nil THEN "success" ELSE "reject"
  ELSE IF a = n - 1 THEN "exhausted"
  ELSE "retry"

\* Mutant: the predicate is not consulted; every error is retried.
DecideNoPredicate(o, a, n, f) ==
  IF o = Nil THEN "success"
  ELSE IF a = n - 1 THEN "exhausted"
  ELSE "retry"

\* Mutant: the last-attempt check is missing; the loop condition ends the call
\* after one more wait.
DecideNoLastCheck(o, a, n, f) ==
  IF o = Nil THEN "success"
  ELSE IF ~Cond(f, o) THEN "reject"
  ELSE "retry"

\* Mutant: the context is looked at again when retryFunc has returned, and a
\* cancelled context sends the call to the select whatever the result was.
DecideCancelFirst(o, a, n, f) ==
  IF ctxErr # Nil THEN "retry"
  ELSE IF o = Nil THEN "success"
  ELSE IF ~Cond(f, o) THEN "reject"
  ELSE IF a = n - 1 THEN "exhausted"
  ELSE "retry"

\* What one iteration does with the result o of retryFunc on attempt a of n
\* under predicate f: return nil, return the rejected error, return the error
\* of the last attempt, or back off and retry.
Decide(o, a, n, f) ==
  IF o = Nil THEN "success"
  ELSE IF ~Cond(f, o) THEN "reject"
  ELSE IF a = n - 1 THEN "exhausted"
  ELSE "retry"

\* Mutant: the Fprintf stands after the last-attempt check.
ShouldLogNotLast(k) == k = "retry"

\* The Fprintf stands after the predicate check and before the last-attempt check.
ShouldLog(k) == k \in {"exhausted", "retry"}

\* time.Duration(math.Pow(2, float64(attempt))): exact while 2^attempt fits the
\* signed width; beyond it the float-to-integer conversion is implementation
\* dependent (the smallest integer on amd64, the largest on arm64).
Pow2Conv(a) ==
  IF a < DurBits - 1 THEN {Pow2(a)} ELSE {MinDur, MaxDur}

\* Mutant: the clamp to maxDelay is missing.
BackoffNoClamp(b, m, p) == Wrap(b * p)

\* backoff := r.baseDelay * p ; backoff = min(backoff, r.maxDelay)
Backoff(b, m, p) == Min(Wrap(b * p), m)

\* rand.Int63n(n): the values it may return; it panics when n <= 0.
Int63n(n) == 0 .. (n - 1)

\* NewRetryer
Init ==
  /\ retryCount = DefaultCount
  /\ baseDelay = DefaultBaseDelay
  /\ maxDelay = DefaultMaxDelay
  /\ retryConditionFunc = "any"
  /\ logger = <<>>
  /\ pc = "idle"
  /\ ctxErr = Nil
  /\ attempt = 0
  /\ err = Nil
  /\ result = Nil
  /\ backoff = 0
  /\ jitter = 0
  /\ timerReady = FALSE
  /\ invocations = 0
  /\ outcomes = <<>>
  /\ waits = 0
  /\ logStart = 0
  /\ condCalls = 0
  /\ sumJitter = 0
  /\ cancelPc = "none"
  /\ cancelInv = 0
  /\ calls = 0

percall == <<pc, ctxErr, attempt, err, result, backoff, jitter, timerReady>>

SetConditionFunc(f) ==
  /\ pc = "idle"
  /\ retryConditionFunc' = f
  /\ UNCHANGED <<retryCount, baseDelay, maxDelay, logger, percall, ghost>>

SetCount(n) ==
  /\ pc = "idle"
  /\ retryCount' = n
  /\ UNCHANGED <<baseDelay, maxDelay, retryConditionFunc, logger, percall, ghost>>

SetDelay(b, m) ==
  /\ pc = "idle"
  /\ baseDelay' = b
  /\ maxDelay' = m
  /\ UNCHANGED <<retryCount, retryConditionFunc, logger, percall, ghost>>

\* Entry of Retry(ctx, retryFunc): var err error; attempt := 0. The context
\* handed in may already be cancelled or past its deadline.
CallRetry(c) ==
  /\ pc = "idle"
  /\ pc' = "loop"
  /\ ctxErr' = c
  /\ attempt' = 0
  /\ err' = Nil
  /\ logStart' = Len(logger)
  /\ cancelPc' = IF c = Nil THEN "none" ELSE "before"
  /\ calls' = calls + 1
  /\ UNCHANGED <<config, logger, result, backoff, jitter, timerReady,
                 invocations, outcomes, waits, condCalls, sumJitter, cancelInv>>

\* Mutant: the attempt index and the last error live on across calls, as they
\* would as fields of Retryer.
CallAgainKeepsLocals(c) ==
  /\ pc = "done"
  /\ calls < MaxCalls
  /\ pc' = "loop"
  /\ ctxErr' = c
  /\ result' = Nil
  /\ backoff' = 0
  /\ jitter' = 0
  /\ timerReady' = FALSE
  /\ invocations' = 0
  /\ outcomes' = <<>>
  /\ waits' = 0
  /\ condCalls' = 0
  /\ sumJitter' = 0
  /\ cancelInv' = 0
  /\ logStart' = Len(logger)
  /\ cancelPc' = IF c = Nil THEN "none" ELSE "before"
  /\ calls' = calls + 1
  /\ UNCHANGED <<config, logger, attempt, err>>

\* A further call of Retry on the same instance after the previous one has
\* returned: err and attempt are locals of the call and start afresh, as do
\* the per-iteration locals and the history of the call; the fields of
\* Retryer, the sink's contents included, are what the last call left.
CallAgain(c) ==
  /\ pc = "done"
  /\ calls < MaxCalls
  /\ pc' = "loop"
  /\ ctxErr' = c
  /\ attempt' = 0
  /\ err' = Nil
  /\ result' = Nil
  /\ backoff' = 0
  /\ jitter' = 0
  /\ timerReady' = FALSE
  /\ invocations' = 0
  /\ outcomes' = <<>>
  /\ waits' = 0
  /\ condCalls' = 0
  /\ sumJitter' = 0
  /\ cancelInv' = 0
  /\ logStart' = Len(logger)
  /\ cancelPc' = IF c = Nil THEN "none" ELSE "before"
  /\ calls' = calls + 1
  /\ UNCHANGED <<config, logger>>

\* The caller's context is cancelled, or its deadline passes, during the call.
Cancel(c) ==
  /\ pc \in {"loop", "running", "wait"}
  /\ ctxErr = Nil
  /\ ctxErr' = c
  /\ cancelPc' = pc
  /\ cancelInv' = invocations
  /\ UNCHANGED <<config, logger, pc, attempt, err, result, backoff, jitter,
                 timerReady, invocations, outcomes, waits, logStart,
                 condCalls, sumJitter, calls>>

\* return v
Return(v) ==
  /\ pc' = "done"
  /\ result' = v

\* Loop head: the for condition, the ctx.Err() check and the call of retryFunc.
LoopHead ==
  /\ pc = "loop"
  /\ IF LoopCond(attempt, retryCount)
       THEN IF CtxDone(ctxErr)
              THEN /\ Return(ctxErr)
                   /\ UNCHANGED invocations
              ELSE /\ pc' = "running"
                   /\ invocations' = invocations + 1
                   /\ UNCHANGED result
       ELSE /\ Return(err)
            /\ UNCHANGED invocations
  /\ UNCHANGED <<config, logger, ctxErr, attempt, err, backoff, jitter,
                 timerReady, outcomes, waits, logStart, condCalls,
                 sumJitter, cancelPc, cancelInv, calls>>

\* The backoff computation, the jitter draw and the entry into the select.
BackoffAndWait ==
  \E p \in Pow2Conv(attempt) :
    /\ backoff' = Backoff(baseDelay, maxDelay, p)
    /\ IF Int63n(backoff') = {}
         THEN /\ pc' = "panic"
              /\ UNCHANGED <<result, jitter, timerReady, waits, sumJitter>>
         ELSE \E j \in Int63n(backoff') :
                /\ jitter' = j
                /\ timerReady' = FALSE
                /\ pc' = "wait"
                /\ waits' = waits + 1
                /\ sumJitter' = sumJitter + j
                /\ UNCHANGED result

\* retryFunc returns o; the rest of the loop body up to the select.
OpReturn(o) ==
  /\ pc = "running"
  /\ err' = o
  /\ outcomes' = Append(outcomes, o)
  /\ condCalls' = IF o = Nil THEN condCalls ELSE condCalls + 1
  /\ LET k == Decide(o, attempt, retryCount, retryConditionFunc) IN
       /\ logger' = IF ShouldLog(k)
                      THEN Append(logger, LogLine(attempt, retryCount, o))
                      ELSE logger
       /\ CASE k = "success" ->
                 /\ Return(Nil)
                 /\ UNCHANGED <<backoff, jitter, timerReady, waits, sumJitter>>
            [] k \in {"reject", "exhausted"} ->
                 /\ Return(o)
                 /\ UNCHANGED <<backoff, jitter, timerReady, waits, sumJitter>>
            [] OTHER -> BackoffAndWait
  /\ UNCHANGED <<config, ctxErr, attempt, invocations, logStart,
                 cancelPc, cancelInv, calls>>

\* The runtime timer time.After(jitter) armed for the latest wait has not fired.
\* Retry holds no handle on it and never stops it.
TimerPending == waits >= 1 /\ ~timerReady

\* The timer of time.After(jitter) fires: its channel becomes ready. Nothing
\* stops the timer when the select leaves by the cancellation branch, so it
\* may also fire after Retry has returned.
TimerFires ==
  /\ pc \in {"wait", "done"}
  /\ TimerPending
  /\ timerReady' = TRUE
  /\ UNCHANGED <<config, logger, pc, ctxErr, attempt, err, result, backoff,
                 jitter, ghost>>

\* select: case <-ctx.Done(): return ctx.Err()
SelectDone ==
  /\ pc = "wait"
  /\ CtxDone(ctxErr)
  /\ Return(ctxErr)
  /\ UNCHANGED <<config, logger, ctxErr, attempt, err, backoff, jitter,
                 timerReady, ghost>>

\* Mutant: the loop does not advance the attempt index.
SelectTimerNoIncrement ==
  /\ pc = "wait"
  /\ timerReady
  /\ pc' = "loop"
  /\ UNCHANGED <<config, logger, ctxErr, attempt, err, result, backoff, jitter,
                 timerReady, ghost>>

\* select: case <-time.After(jitter): fall through to attempt++
SelectTimer ==
  /\ pc = "wait"
  /\ timerReady
  /\ attempt' = attempt + 1
  /\ pc' = "loop"
  /\ UNCHANGED <<config, logger, ctxErr, err, result, backoff, jitter,
                 timerReady, ghost>>

Next ==
  \/ \E f \in CondFuncs : SetConditionFunc(f)
  \/ \E n \in (-1) .. MaxCount : SetCount(n)
  \/ \E b \in 0 .. MaxBaseDelay, m \in 0 .. MaxMaxDelay : SetDelay(b, m)
  \/ \E c \in {Nil} \cup CtxErrs : CallRetry(c)
  \/ \E c \in CtxErrs : Cancel(c)
  \/ LoopHead
  \/ \E o \in Outcomes : OpReturn(o)
  \/ TimerFires
  \/ SelectDone
  \/ SelectTimer

Spec == Init /\ [][Next]_vars

\* One instance used for several calls in a row, under settings made once
\* before the first call.
NextReuse ==
  \/ \E f \in CondFuncs : SetConditionFunc(f)
  \/ \E n \in 0 .. ReuseMaxCount : SetCount(n)
  \/ \E b \in 0 .. ReuseMaxDelay, m \in 0 .. ReuseMaxDelay : SetDelay(b, m)
  \/ \E c \in {Nil} \cup CtxErrs : CallRetry(c)
  \/ \E c \in {Nil} \cup CtxErrs : CallAgain(c)
  \/ \E c \in CtxErrs : Cancel(c)
  \/ LoopHead
  \/ \E o \in Outcomes : OpReturn(o)
  \/ TimerFires
  \/ SelectDone
  \/ SelectTimer

SpecReuse == Init /\ [][NextReuse]_vars

\* ---- definitions used to state the properties -----------------------------
\* The lines this call wrote to the sink.
CallLines == SubSeq(logger, logStart + 1, Len(logger))

\* o is a failure the installed predicate accepts.
AcceptedFail(o) == o # Nil /\ Cond(retryConditionFunc, o)

\* Invocations 1 .. k-1 all failed with errors the predicate accepts.
AcceptedBefore(k) == \A i \in 1 .. (k - 1) : AcceptedFail(outcomes[i])

\* The call ended: it returned or the process panicked.
Ended == pc \in {"done", "panic"}

\* min(baseDelay * 2^i, maxDelay) over the integers, without any wrap.
MathBackoff(i) == Min(baseDelay * Pow2(i), maxDelay)

RECURSIVE SumBackoffs(_)
SumBackoffs(k) == IF k <= 0 THEN 0 ELSE SumBackoffs(k - 1) + MathBackoff(k - 1)

\* ---- C1 -------------------------------------------------------------------
\* C1: for every budget N >= 1, a call during which cancellation never fires
\* and every invocation fails with an error the predicate accepts ends by
\* returning, after exactly N invocations, the error of the N-th invocation.
\* Violated: with a zero backoff (C9) or a wrapped, negative one the call
\* panics in the jitter draw before the budget is used up.
C1_ExhaustsBudget ==
  (/\ retryCount >= 1
   /\ Ended
   /\ cancelPc = "none"
   /\ AcceptedBefore(Len(outcomes) + 1))
  => (/\ pc = "done"
      /\ invocations = retryCount
      /\ Len(outcomes) = retryCount
      /\ result = outcomes[retryCount])

\* ---- C2 -------------------------------------------------------------------
\* C2: for every budget N >= 1, when cancellation never fires and the k-th
\* invocation is a success after k-1 failures the predicate accepted
\* (1 <= k <= N), the call has returned nil and made exactly k invocations.
C2_SuccessOnKth ==
  \A k \in 1 .. Len(outcomes) :
    (/\ retryCount >= 1
     /\ cancelPc = "none"
     /\ outcomes[k] = Nil
     /\ AcceptedBefore(k))
    => (/\ k <= retryCount
        /\ pc = "done"
        /\ result = Nil
        /\ invocations = k
        /\ Len(outcomes) = k)

C2_Witness ==
  /\ pc = "done"
  /\ cancelPc = "none"
  /\ retryCount >= 4
  /\ Len(outcomes) = 3
  /\ outcomes[3] = Nil
  /\ result = Nil

\* ---- C3 -------------------------------------------------------------------
\* C3: when the j-th invocation is the first whose error the predicate
\* rejects, the call has returned exactly that error after exactly j
\* invocations, and no wait followed the j-th invocation (j-1 waits in all).
C3_RejectedReturnsAtOnce ==
  \A j \in 1 .. Len(outcomes) :
    (/\ outcomes[j] # Nil
     /\ ~Cond(retryConditionFunc, outcomes[j])
     /\ AcceptedBefore(j))
    => (/\ j <= retryCount
        /\ pc = "done"
        /\ result = outcomes[j]
        /\ invocations = j
        /\ Len(outcomes) = j
        /\ waits = j - 1)

C3_Witness ==
  /\ pc = "done"
  /\ retryCount = 4
  /\ retryConditionFunc = "onlyA"
  /\ outcomes = <<"ErrA", "ErrA", "ErrB">>
  /\ result = "ErrB"
  /\ invocations = 3

\* ---- C4 -------------------------------------------------------------------
\* C4: for every budget N >= 1, a call entered with the context already
\* cancelled or past its deadline never invokes the operation, never consults
\* the predicate, writes nothing to the sink, and returns the context's error.
C4_CancelledBeforeCall ==
  (retryCount >= 1 /\ cancelPc = "before")
  => (/\ pc \in {"loop", "done"}
      /\ invocations = 0
      /\ condCalls = 0
      /\ CallLines = <<>>
      /\ (pc = "done" => result = ctxErr /\ result \in CtxErrs))

C4_Witness ==
  /\ retryCount >= 1
  /\ cancelPc = "before"
  /\ pc = "done"
  /\ result = "DeadlineExceeded"

\* ---- C5 -------------------------------------------------------------------
\* C5: once cancellation fires while the call waits between two attempts, the
\* operation is never invoked again and the call can only return the
\* context's error, whether the select takes the cancellation branch or, the
\* timer being ready too, the timer branch; the cancellation branch is open
\* at once, without the timer having fired.
C5_CancelledDuringWait ==
  cancelPc = "wait"
  => (/\ invocations = cancelInv
      /\ pc \in {"wait", "loop", "done"}
      /\ (pc = "wait" => ENABLED SelectDone)
      /\ (pc = "done" => result = ctxErr /\ result \in CtxErrs))

\* Cancelled during the wait, the timer branch was taken, and the call returned.
C5_Witness ==
  /\ cancelPc = "wait"
  /\ pc = "done"
  /\ timerReady
  /\ attempt = invocations
  /\ result \in CtxErrs

\* ---- C6 -------------------------------------------------------------------
\* C6: in every state the number of invocations made so far is at most the
\* configured budget (and none is made under a budget below one).
C6_AtMostBudget ==
  invocations <= (IF retryCount > 0 THEN retryCount ELSE 0)

C6_Witness ==
  /\ retryCount = MaxCount
  /\ invocations = retryCount
  /\ pc = "done"

\* ---- C7 -------------------------------------------------------------------
\* C7 as stated: lines are written only after failed attempts 1 .. N-1, so no
\* line carries the attempt number N and an exhausted call has N-1 lines.
C7_NoLineAfterFinalAttempt ==
  /\ \A i \in 1 .. Len(CallLines) : CallLines[i].attempt <= retryCount - 1
  /\ (pc = "done" /\ invocations = retryCount /\ retryCount >= 1
        /\ AcceptedFail(outcomes[Len(outcomes)])
      => Len(CallLines) = retryCount - 1)

\* C7 amended: the lines of a call are exactly its failures the predicate
\* accepted, the final (N-th) one included, in order, each carrying the
\* 1-based attempt number, N and the error; a success or a rejected failure
\* writes nothing, and a call that exhausts its budget has written N lines.
C7_LineAfterEveryAcceptedFailure ==
  /\ Len(CallLines) = Cardinality({i \in 1 .. Len(outcomes) : AcceptedFail(outcomes[i])})
  /\ \A i \in 1 .. Len(CallLines) :
       /\ AcceptedFail(outcomes[i])
       /\ CallLines[i] = LogLine(i - 1, retryCount, outcomes[i])
  /\ (pc = "done" /\ retryCount >= 1 /\ Len(outcomes) = retryCount
        /\ AcceptedFail(outcomes[Len(outcomes)])
      => Len(CallLines) = retryCount)

C7_Witness ==
  /\ pc = "done"
  /\ retryCount = 3
  /\ Len(outcomes) = 3
  /\ AcceptedFail(outcomes[3])
  /\ Len(CallLines) = 3
  /\ CallLines[3].attempt = 3

C9_ZeroBackoffNoPanic ==
  ~(pc = "panic" /\ backoff = 0)

\* ---- C10 ------------------------------------------------------------------
\* C10: for a budget N >= 1, a wait is begun only after a failure the
\* predicate accepted on an attempt that is not the last; so each invocation
\* is preceded by one wait less than its number, a call that ends without the
\* context's error has waited once less than it invoked, and under budget 1
\* there is no wait and such a call has invoked exactly once.
C10_WaitOnlyBetweenAttempts ==
  retryCount >= 1
  => (/\ (pc = "wait" => /\ waits = invocations
                         /\ invocations < retryCount
                         /\ Len(outcomes) = invocations
                         /\ AcceptedFail(outcomes[invocations]))
      /\ (pc = "running" => waits = invocations - 1)
      /\ (Ended /\ result \notin CtxErrs => waits = invocations - 1)
      /\ (retryCount = 1 => waits = 0)
      /\ (retryCount = 1 /\ pc = "done" /\ result \notin CtxErrs
            => invocations = 1))

\* A call that used up a budget of three: two waits, none after the last.
C10_Witness ==
  /\ pc = "done"
  /\ retryCount = 3
  /\ invocations = 3
  /\ AcceptedFail(outcomes[3])
  /\ waits = 2
  /\ result \notin CtxErrs

\* ---- C11 ------------------------------------------------------------------
\* C11: a budget below one is guarded against, so that a call whose context is
\* never cancelled invokes the operation at least once before it returns, and
\* returns nil only if some invocation returned nil.
\* Violated: SetCount stores any integer and the loop of Retry does not run
\* under a budget below one, so the call returns the initial nil error.
C11_BudgetBelowOneGuarded ==
  (pc = "done" /\ cancelPc = "none")
  => (/\ invocations >= 1
      /\ (result = Nil => \E i \in 1 .. Len(outcomes) : outcomes[i] = Nil))

\* ---- C12 ------------------------------------------------------------------
\* C12: the i-th line of a call is 'Attempt i/<budget> failed: <error of the
\* i-th invocation>', so the attempt numbers run 1, 2, ..., m without gap or
\* repeat and every line prints the same budget; the line of an accepted
\* failure is written once, after the predicate was consulted, before the
\* last-attempt check (the failure that uses up the budget has its line when
\* the call returns) and before any wait (while waiting, and on the next
\* attempt, every invocation made so far has its line).
C12_OneLinePerAcceptedFailureInOrder ==
  /\ \A i \in 1 .. Len(CallLines) :
       /\ CallLines[i].attempt = i
       /\ CallLines[i].count = retryCount
       /\ i <= Len(outcomes)
       /\ CallLines[i].err = outcomes[i]
       /\ CallLines[i].err # Nil
  /\ Len(CallLines) <= condCalls
  /\ (pc = "wait" => Len(CallLines) = invocations /\ Len(CallLines) = waits)
  /\ (pc = "running" => Len(CallLines) = invocations - 1)
  /\ (pc = "panic" => Len(CallLines) = invocations)
  /\ (pc = "done" /\ Len(outcomes) >= 1 =>
        Len(CallLines) =
          (IF AcceptedFail(outcomes[Len(outcomes)])
             THEN Len(outcomes) ELSE Len(outcomes) - 1))

\* Three accepted failures in a row, the third being the last attempt: lines
\* 1/3, 2/3, 3/3.
C12_Witness ==
  /\ pc = "done"
  /\ retryCount = 3
  /\ Len(CallLines) = 3
  /\ CallLines[1] = [attempt |-> 1, count |-> 3, err |-> "ErrA"]
  /\ CallLines[2] = [attempt |-> 2, count |-> 3, err |-> "ErrB"]
  /\ CallLines[3] = [attempt |-> 3, count |-> 3, err |-> "ErrA"]

\* ---- C13 ------------------------------------------------------------------
\* C13: the backoff computed after attempt index i (the wait before jitter)
\* is at most maxDelay, is not below the backoff computed after index i-1,
\* and is not below the first backoff min(baseDelay, maxDelay): it never wraps
\* to a smaller, zero or negative value, whatever index the budget allows.
\* (The backoff after index i-1 was followed by a wait, so by C8 it is
\* MathBackoff(i-1).)
\* Violated: baseDelay * 2^i wraps in the duration's integer width.
C13_BackoffMonotoneNoWrap ==
  pc \in {"wait", "panic"}
  => (/\ backoff <= maxDelay
      /\ backoff >= Min(baseDelay, maxDelay)
      /\ (attempt >= 1 => backoff >= MathBackoff(attempt - 1)))

\* ---- C14 ------------------------------------------------------------------
\* A step of the call itself: the loop head, the return of retryFunc with the
\* rest of the loop body, the timer firing, or a branch of the select.
CallStep ==
  \/ LoopHead
  \/ \E o \in Outcomes : OpReturn(o)
  \/ TimerFires
  \/ SelectDone
  \/ SelectTimer

\* The four ways a call returns.
ReturnedSuccess == result = Nil /\ Len(outcomes) >= 1 /\ outcomes[Len(outcomes)] = Nil
ReturnedRejected ==
  /\ Len(outcomes) >= 1
  /\ result = outcomes[Len(outcomes)]
  /\ result # Nil
  /\ ~Cond(retryConditionFunc, result)
ReturnedExhausted ==
  /\ Len(outcomes) = retryCount
  /\ Len(outcomes) >= 1
  /\ result = outcomes[Len(outcomes)]
  /\ AcceptedFail(result)
ReturnedCancelled == result \in CtxErrs /\ result = ctxErr

\* C14: a call under a budget N >= 1 always returns when the operation, the
\* predicate and the timers do their part: as long as it has not returned it
\* can take a next step (it is never stuck short of a return), it makes at
\* most N invocations and N-1 completed waits, and when it has returned it
\* has done so in one of the four ways.
\* Violated: the call ends in a panic of rand.Int63n (C9, C13), from which it
\* never returns.
C14_CallReturns ==
  (retryCount >= 1 /\ pc # "idle")
  => (/\ (pc = "done" \/ ENABLED CallStep)
      /\ invocations <= retryCount
      /\ waits <= retryCount - 1
      /\ (pc = "done" => \/ ReturnedSuccess
                         \/ ReturnedRejected
                         \/ ReturnedExhausted
                         \/ ReturnedCancelled))

\* ---- C15 ------------------------------------------------------------------
\* C15: when the call has returned, by whichever exit, no timer it armed is
\* still pending; the timer of a wait that cancellation ended is released.
\* Violated: the timer comes from time.After and is never stopped, so after
\* the select leaves by <-ctx.Done() it stays armed until it fires.
C15_NoTimerPendingAfterReturn ==
  pc = "done" => ~TimerPending

\* ---- C16 ------------------------------------------------------------------
\* C16: the context's error is returned only by the check before an attempt
\* or by the select of the wait, that is, only when no invocation was made or
\* the latest invocation failed with an accepted error on a non-final attempt.
\* When cancellation fired while the operation was running and that
\* invocation's result ends the call (nil, a rejected error, or an accepted
\* error on the final attempt), the call returns that result and not the
\* context's error.
C16_CancelDoesNotOverrideOutcome ==
  /\ (pc = "done" /\ result \in CtxErrs)
     => (/\ result = ctxErr
         /\ \/ Len(outcomes) = 0
            \/ /\ AcceptedFail(outcomes[Len(outcomes)])
               /\ Len(outcomes) < retryCount)
  /\ (cancelPc = "running" /\ Len(outcomes) >= cancelInv)
     => LET o == outcomes[cancelInv] IN
          (o = Nil \/ ~Cond(retryConditionFunc, o) \/ cancelInv = retryCount)
          => (/\ pc = "done"
              /\ result = o
              /\ result \notin CtxErrs
              /\ invocations = cancelInv)

\* Cancelled while the final attempt was running; the attempt failed with an
\* accepted error, which is what the call returned.
C16_Witness ==
  /\ cancelPc = "running"
  /\ ctxErr \in CtxErrs
  /\ pc = "done"
  /\ cancelInv = retryCount
  /\ retryCount >= 2
  /\ AcceptedFail(outcomes[cancelInv])
  /\ result = outcomes[cancelInv]

\* ---- C17 ------------------------------------------------------------------
\* What holds of a call that starts from nothing but the settings: it begins
\* at attempt index 0 with no error, its k-th invocation runs at index k-1,
\* its k-th wait follows index k-1 with the backoff of that index (the first
\* one min(baseDelay, maxDelay)), its lines are numbered from 1, it gives up
\* on accepted failures only when the full budget is used, and under a budget
\* of zero it returns nil.
StartsAfresh ==
  calls >= 1
  => (/\ (pc = "loop" /\ invocations = 0 => attempt = 0 /\ err = Nil)
      /\ (pc = "running" => attempt = invocations - 1)
      /\ (pc = "wait" => /\ attempt = waits - 1
                         /\ backoff = MathBackoff(waits - 1)
                         /\ (waits = 1 => backoff = Min(baseDelay, maxDelay)))
      /\ (\A i \in 1 .. Len(CallLines) : CallLines[i].attempt = i)
      /\ (pc = "done" /\ cancelPc = "none" /\ AcceptedBefore(Len(outcomes) + 1)
            => /\ invocations = (IF retryCount > 0 THEN retryCount ELSE 0)
               /\ (retryCount <= 0 => result = Nil)))

\* C17: no step of a call (nor the start of a further call) changes the
\* budget, the delays or the predicate, and every call on the instance, the
\* first and any later one, whatever the earlier calls did, starts afresh as
\* a call on a new instance with the same settings does.
C17_NoStateBetweenCalls ==
  /\ []StartsAfresh
  /\ [][pc # "idle" => config' = config]_vars

\* A second call that used its full budget, two waits included, after a first
\* call that had itself written lines to the sink.
C17_Witness ==
  /\ calls = 2
  /\ logStart >= 2
  /\ pc = "done"
  /\ retryCount = DefaultCount
  /\ invocations = retryCount
  /\ waits = retryCount - 1
  /\ result \in Errs

====
